---- MODULE Spec2Model ----
(***************************************************************************)
(* Model of neuro-sdk/Web Game Runner/server.py: the CORSRequestHandler    *)
(* (do_GET, __handle_env, end_headers) and the bootstrap (__main__, serve, *)
(* shell_open).  Strings are sequences of one-character strings, Python    *)
(* str values of environment variables are sequences of code points and    *)
(* bytes are sequences of 0..255.  Requests are HTTP/1.x GET requests.     *)
(***************************************************************************)
EXTENDS Integers, Sequences, FiniteSets, TLC

VARIABLES pc, cwd, args, platform, portFree, opener, spawned, died,
          environ, resp, nreq

vars == <<pc, cwd, args, platform, portFree, opener, spawned, died,
          environ, resp, nreq>>

(* ------------------------------ bounds -------------------------------- *)
MaxValLen == 1
MaxRequests == 2

(* --------------------------- str operations --------------------------- *)
startswith(s, p) ==
    Len(s) >= Len(p) /\ SubSeq(s, 1, Len(p)) = p

endswith(s, p) ==
    Len(s) >= Len(p) /\ SubSeq(s, Len(s) - Len(p) + 1, Len(s)) = p

removeprefix(s, p) ==
    IF startswith(s, p) THEN SubSeq(s, Len(p) + 1, Len(s)) ELSE s

\* UTF-8 bytes of one code point (str.encode() default codec)
utf8(cp) ==
    IF cp < 128 THEN <<cp>>
    ELSE IF cp < 2048 THEN <<192 + (cp \div 64), 128 + (cp % 64)>>
    ELSE IF cp < 65536
         THEN <<224 + (cp \div 4096), 128 + ((cp \div 64) % 64), 128 + (cp % 64)>>
    ELSE <<240 + (cp \div 262144), 128 + ((cp \div 4096) % 64),
           128 + ((cp \div 64) % 64), 128 + (cp % 64)>>

IsSurrogate(cp) == cp >= 55296 /\ cp <= 57343

RECURSIVE encode(_)
\* str.encode(): strict UTF-8; a lone surrogate raises UnicodeEncodeError
encode(s) ==
    IF s = <<>> THEN [ok |-> TRUE, bytes |-> <<>>]
    ELSE IF IsSurrogate(Head(s)) THEN [ok |-> FALSE, bytes |-> <<>>]
    ELSE LET rest == encode(Tail(s))
         IN  IF rest.ok THEN [ok |-> TRUE, bytes |-> utf8(Head(s)) \o rest.bytes]
             ELSE [ok |-> FALSE, bytes |-> <<>>]

(* ------------------------- request inputs ----------------------------- *)
EnvPrefix      == <<"/", "$", "e", "n", "v">>
EnvPrefixSlash == <<"/", "$", "e", "n", "v", "/">>
SuffixBr       == <<".", "b", "r">>
SuffixGz       == <<".", "g", "z">>

NameA        == <<"A">>
NameSlashEnv == <<"/", "$", "e", "n", "v">>

P_envA     == <<"/", "$", "e", "n", "v", "/", "A">>
P_env      == <<"/", "$", "e", "n", "v">>
P_envSlash == <<"/", "$", "e", "n", "v", "/">>
P_envX     == <<"/", "$", "e", "n", "v", "X">>
P_envAgz   == <<"/", "$", "e", "n", "v", "/", "A", ".", "g", "z">>
P_ENVA     == <<"/", "$", "E", "N", "V", "/", "A">>
P_index    == <<"/", "i", ".", "h", "t", "m", "l">>
P_br       == <<"/", "a", ".", "b", "r">>
P_gz       == <<"/", "a", ".", "g", "z">>
P_brQuery  == <<"/", "a", ".", "b", "r", "?", "v">>

Paths == {P_envA, P_env, P_envSlash, P_envX, P_envAgz, P_ENVA,
          P_index, P_br, P_gz, P_brQuery}

\* names that the process environment may define
EnvNames == {NameA, NameSlashEnv}

\* code points of environment values: 'd', U+00E9, and U+DCFF, the
\* surrogateescape image of the undecodable byte 0xFF
CodePoints == {100, 233, 56575}

EnvValues == UNION {[1..n -> CodePoints] : n \in 0..MaxValLen}

Environments == UNION {[D -> EnvValues] : D \in SUBSET EnvNames}

FileBytes == <<104, 105>>
ErrorPage == <<60, 33>>

(* --------------------- BaseHTTPRequestHandler ------------------------- *)
NewHandler(path) ==
    [path |-> path, status |-> 0, buf |-> <<>>, headers |-> <<>>,
     flushed |-> FALSE, body |-> <<>>, branch |-> "none", looked |-> <<>>,
     raised |-> FALSE]

send_response(h, code) ==
    [h EXCEPT !.status = code,
              !.buf = @ \o << <<"Server", "SimpleHTTP">>, <<"Date", "now">> >>]

send_header(h, keyword, value) ==
    [h EXCEPT !.buf = Append(@, <<keyword, value>>)]

base_end_headers(h) ==
    [h EXCEPT !.headers = @ \o h.buf, !.buf = <<>>, !.flushed = TRUE]

wfile_write(h, data) ==
    [h EXCEPT !.body = @ \o data]

(* ------------------------ CORSRequestHandler -------------------------- *)
\* end_headers with the `elif self.path.endswith(".gz")` arm lost
end_headers_no_gzip(h) ==
    LET h5 == send_header(send_header(send_header(send_header(send_header(h,
                  "Cross-Origin-Opener-Policy", "same-origin"),
                  "Cross-Origin-Embedder-Policy", "require-corp"),
                  "Access-Control-Allow-Methods", "GET,POST,OPTIONS"),
                  "Access-Control-Allow-Headers", "Content-Type"),
                  "Access-Control-Allow-Origin", "*")
        h6 == IF endswith(h.path, SuffixBr)
              THEN send_header(h5, "Content-Encoding", "br")
              ELSE h5
    IN  base_end_headers(send_header(send_header(send_header(h6,
                  "Cache-Control", "no-cache, no-store, must-revalidate"),
                  "Pragma", "no-cache"),
                  "Expires", "0"))

end_headers(h) ==
    LET h5 == send_header(send_header(send_header(send_header(send_header(h,
                  "Cross-Origin-Opener-Policy", "same-origin"),
                  "Cross-Origin-Embedder-Policy", "require-corp"),
                  "Access-Control-Allow-Methods", "GET,POST,OPTIONS"),
                  "Access-Control-Allow-Headers", "Content-Type"),
                  "Access-Control-Allow-Origin", "*")
        h6 == IF endswith(h.path, SuffixBr)
              THEN send_header(h5, "Content-Encoding", "br")
              ELSE IF endswith(h.path, SuffixGz)
              THEN send_header(h5, "Content-Encoding", "gzip")
              ELSE h5
    IN  base_end_headers(send_header(send_header(send_header(h6,
                  "Cache-Control", "no-cache, no-store, must-revalidate"),
                  "Pragma", "no-cache"),
                  "Expires", "0"))

\* __handle_env whose 404 arm finalizes the headers with the base class's
\* end_headers instead of the override
handle_env_base_404(h) ==
    LET requested_var == removeprefix(h.path, EnvPrefixSlash)
        h0 == [h EXCEPT !.branch = "env", !.looked = <<requested_var>>]
    IN  IF requested_var \in DOMAIN environ
        THEN LET h1 == end_headers(send_header(send_response(h0, 200),
                                               "Content-Type", "text/plain"))
                 e  == encode(environ[requested_var])
             IN  IF e.ok THEN wfile_write(h1, e.bytes)
                 ELSE [h1 EXCEPT !.raised = TRUE]
        ELSE base_end_headers(send_response(h0, 404))

\* __handle_env whose 404 arm writes a message after the headers
handle_env_404_body(h) ==
    LET requested_var == removeprefix(h.path, EnvPrefixSlash)
        h0 == [h EXCEPT !.branch = "env", !.looked = <<requested_var>>]
    IN  IF requested_var \in DOMAIN environ
        THEN LET h1 == end_headers(send_header(send_response(h0, 200),
                                               "Content-Type", "text/plain"))
                 e  == encode(environ[requested_var])
             IN  IF e.ok THEN wfile_write(h1, e.bytes)
                 ELSE [h1 EXCEPT !.raised = TRUE]
        ELSE wfile_write(end_headers(send_response(h0, 404)), ErrorPage)

handle_env(h) ==
    LET requested_var == removeprefix(h.path, EnvPrefixSlash)
        h0 == [h EXCEPT !.branch = "env", !.looked = <<requested_var>>]
    IN  IF requested_var \in DOMAIN environ
        THEN LET h1 == end_headers(send_header(send_response(h0, 200),
                                               "Content-Type", "text/plain"))
                 e  == encode(environ[requested_var])
             IN  IF e.ok THEN wfile_write(h1, e.bytes)
                 ELSE [h1 EXCEPT !.raised = TRUE]
        ELSE end_headers(send_response(h0, 404))

\* SimpleHTTPRequestHandler.do_GET: the file is sent, or send_error(404);
\* both finalize their headers through self.end_headers()
super_do_GET(h, found) ==
    LET h0 == [h EXCEPT !.branch = "static"]
    IN  IF found
        THEN wfile_write(
               end_headers(send_header(send_header(send_header(
                   send_response(h0, 200),
                   "Content-type", "application/octet-stream"),
                   "Content-Length", "2"),
                   "Last-Modified", "mtime")),
               FileBytes)
        ELSE wfile_write(
               end_headers(send_header(send_header(send_header(
                   send_response(h0, 404),
                   "Connection", "close"),
                   "Content-Type", "text/html;charset=utf-8"),
                   "Content-Length", "2")),
               ErrorPage)

\* do_GET that tests for the prefix with its separator, "/$env/"
do_GET_slash_prefix(h, found) ==
    IF startswith(h.path, EnvPrefixSlash)
    THEN handle_env(h)
    ELSE super_do_GET(h, found)

do_GET(h, found) ==
    IF startswith(h.path, EnvPrefix)
    THEN handle_env(h)
    ELSE super_do_GET(h, found)

NoResp == NewHandler(<<>>)

(* ----------------------------- bootstrap ------------------------------ *)
DefaultPort == 8060

\* directories of the file system, as sequences of components below "/"
Dirs == {<<>>, <<"repo">>, <<"repo", "platform">>, <<"repo", "platform", "web">>,
         <<"repo", "bin">>, <<"bin">>, <<"home">>}

\* Path(__file__).resolve().parent
ScriptDir == <<"repo", "platform", "web">>

DefaultRoot == [abs |-> FALSE, parts |-> <<"..", "..", "bin">>]
RootHome    == [abs |-> TRUE,  parts |-> <<"home">>]
RootMissing == [abs |-> FALSE, parts |-> <<"..", "missing">>]

RootArgs == {DefaultRoot, RootHome, RootMissing}

StartDirs == {<<>>, <<"repo">>}

Platforms == {"win32", "darwin", "linux"}

RECURSIVE walk(_, _)
walk(cur, parts) ==
    IF parts = <<>> THEN [ok |-> TRUE, dir |-> cur]
    ELSE LET nxt == IF Head(parts) = ".."
                    THEN (IF cur = <<>> THEN <<>>
                          ELSE SubSeq(cur, 1, Len(cur) - 1))
                    ELSE Append(cur, Head(parts))
         IN  IF nxt \in Dirs THEN walk(nxt, Tail(parts))
             ELSE [ok |-> FALSE, dir |-> cur]

\* os.chdir(path) from directory cur; ok = FALSE when it raises OSError
chdir(cur, path) ==
    walk(IF path.abs THEN <<>> ELSE cur, path.parts)

Url(port) == [scheme |-> "http", host |-> "localhost", port |-> port]

Init ==
    /\ pc = "main"
    /\ cwd \in StartDirs
    /\ args \in [root : RootArgs, port : {DefaultPort}, browser : BOOLEAN]
    /\ platform \in Platforms
    /\ portFree \in BOOLEAN
    /\ opener = "none"
    /\ spawned = <<>>
    /\ died = "none"
    /\ environ \in Environments
    /\ resp = NoResp
    /\ nreq = 0

\* __main__ that goes to serve() without os.chdir(<script directory>)
main_no_chdir ==
    /\ pc = "main"
    /\ pc' = "serve"
    /\ UNCHANGED <<cwd, args, platform, portFree, opener, spawned, died,
                   environ, resp, nreq>>

\* __main__: os.chdir(Path(__file__).resolve().parent), then serve(...)
main ==
    /\ pc = "main"
    /\ cwd' = ScriptDir
    /\ pc' = "serve"
    /\ UNCHANGED <<args, platform, portFree, opener, spawned, died,
                   environ, resp, nreq>>

\* serve: os.chdir(root); OSError is not caught and ends the process
serve_chdir ==
    /\ pc = "serve"
    /\ LET r == chdir(cwd, args.root)
       IN  IF r.ok
           THEN /\ cwd' = r.dir
                /\ pc' = "browser"
                /\ died' = died
           ELSE /\ cwd' = cwd
                /\ pc' = "crashed"
                /\ died' = "chdir"
    /\ UNCHANGED <<args, platform, portFree, opener, spawned, environ,
                   resp, nreq>>

\* serve: if run_browser: shell_open(url).  os.startfile returns once the
\* URL is handed over; subprocess.call spawns the opener and waits for it.
\* launched = FALSE: os.startfile raises OSError, or the opener binary is
\* missing and subprocess.call raises FileNotFoundError (neither is caught)
serve_browser ==
    /\ pc = "browser"
    /\ IF ~args.browser
       THEN /\ pc' = "start"
            /\ UNCHANGED <<opener, spawned, died>>
       ELSE \E launched \in BOOLEAN :
              IF ~launched
              THEN /\ pc' = "crashed"
                   /\ died' = "shell_open"
                   /\ opener' = "spawn_failed"
                   /\ spawned' = spawned
              ELSE /\ opener' = "running"
                   /\ spawned' = Append(spawned, Url(args.port))
                   /\ died' = died
                   /\ pc' = IF platform = "win32" THEN "start"
                            ELSE "wait_opener"
    /\ UNCHANGED <<cwd, args, platform, portFree, environ, resp, nreq>>

\* the opener process exits and subprocess.call returns its exit status,
\* which shell_open discards
opener_exit ==
    /\ pc = "wait_opener"
    /\ \E rc \in {0, 1} :
         opener' = IF rc = 0 THEN "exit_zero" ELSE "exit_nonzero"
    /\ pc' = "start"
    /\ UNCHANGED <<cwd, args, platform, portFree, spawned, died, environ,
                   resp, nreq>>

\* serve: test(CORSRequestHandler, HTTPServer, port=port) binds and serves;
\* a bind failure raises OSError out of the program
start_listener ==
    /\ pc = "start"
    /\ IF portFree
       THEN pc' = "listening" /\ died' = died
       ELSE pc' = "crashed" /\ died' = "bind"
    /\ UNCHANGED <<cwd, args, platform, portFree, opener, spawned, environ,
                   resp, nreq>>

\* one GET request handled by the accept loop
handle_request ==
    /\ pc = "listening"
    /\ nreq < MaxRequests
    /\ \E path \in Paths, found \in BOOLEAN :
         resp' = do_GET(NewHandler(path), found)
    /\ nreq' = nreq + 1
    /\ UNCHANGED <<pc, cwd, args, platform, portFree, opener, spawned, died,
                   environ>>

\* os.environ[name] = value (define or redefine)
env_set ==
    /\ pc = "listening"
    /\ \E name \in EnvNames, value \in EnvValues :
         environ' = [n \in DOMAIN environ \cup {name} |->
                        IF n = name THEN value ELSE environ[n]]
    /\ UNCHANGED <<pc, cwd, args, platform, portFree, opener, spawned, died,
                   resp, nreq>>

\* del os.environ[name]
env_unset ==
    /\ pc = "listening"
    /\ \E name \in DOMAIN environ :
         environ' = [n \in DOMAIN environ \ {name} |-> environ[n]]
    /\ UNCHANGED <<pc, cwd, args, platform, portFree, opener, spawned, died,
                   resp, nreq>>

Next ==
    \/ main
    \/ serve_chdir
    \/ serve_browser
    \/ opener_exit
    \/ start_listener
    \/ handle_request
    \/ env_set
    \/ env_unset

Spec == Init /\ [][Next]_vars

\* the program's own steps are taken when enabled; the opener is another
\* process and nothing makes it exit
FairSpec ==
    /\ Init /\ [][Next]_vars
    /\ WF_vars(main)
    /\ WF_vars(serve_chdir)
    /\ WF_vars(serve_browser)
    /\ WF_vars(start_listener)

(* ------------------------------ properties ---------------------------- *)
Range(f) == {f[i] : i \in DOMAIN f}

FixedHeaders ==
    { <<"Cross-Origin-Opener-Policy", "same-origin">>,
      <<"Cross-Origin-Embedder-Policy", "require-corp">>,
      <<"Access-Control-Allow-Methods", "GET,POST,OPTIONS">>,
      <<"Access-Control-Allow-Headers", "Content-Type">>,
      <<"Access-Control-Allow-Origin", "*">>,
      <<"Cache-Control", "no-cache, no-store, must-revalidate">>,
      <<"Pragma", "no-cache">>,
      <<"Expires", "0">> }

\* the last three characters of a path (empty when it is shorter)
LastThree(p) ==
    IF Len(p) >= 3 THEN <<p[Len(p) - 2], p[Len(p) - 1], p[Len(p)]>> ELSE <<>>

ContentEncodings(h) ==
    {i \in DOMAIN h.headers : h.headers[i][1] = "Content-Encoding"}

\* the name N of a path /$env/N, as a one-element set; empty for other paths
NameOf(p) ==
    IF Len(p) >= 6 /\ [i \in 1..6 |-> p[i]] = <<"/", "$", "e", "n", "v", "/">>
    THEN {[i \in 1..(Len(p) - 6) |-> p[i + 6]]}
    ELSE {}

\* the bytes of an environment value as the environment block holds them:
\* UTF-8, a surrogateescape code point U+DC80..U+DCFF being its raw byte
RECURSIVE RawBytes(_)
RawBytes(v) ==
    IF v = <<>> THEN <<>>
    ELSE (IF Head(v) >= 56448 /\ Head(v) <= 56575
          THEN <<Head(v) - 56320>>
          ELSE utf8(Head(v))) \o RawBytes(Tail(v))

\* C1: every response to a GET request (env-lookup 200 and 404, static 200,
\* static error) has its headers finalized with all eight unconditional
\* headers, each with exactly its fixed value.
C1_FixedHeadersOnEveryResponse ==
    nreq > 0 =>
        /\ resp.flushed
        /\ resp.buf = <<>>
        /\ \A fh \in FixedHeaders :
             /\ fh \in Range(resp.headers)
             /\ \A i \in DOMAIN resp.headers :
                  resp.headers[i][1] = fh[1] => resp.headers[i][2] = fh[2]

C1_Witness ==
    /\ nreq > 0
    /\ resp.branch = "static"
    /\ resp.status = 404
    /\ resp.flushed
    /\ <<"Expires", "0">> \in Range(resp.headers)

\* C2: a response carries a Content-Encoding header iff the request path
\* ends with .br or .gz: exactly one, "br" for .br and "gzip" for .gz.
C2_ContentEncodingIffSuffix ==
    nreq > 0 =>
        LET ce == ContentEncodings(resp) IN
        /\ LastThree(resp.path) = <<".", "b", "r">> =>
             Cardinality(ce) = 1 /\ \A i \in ce : resp.headers[i][2] = "br"
        /\ LastThree(resp.path) = <<".", "g", "z">> =>
             Cardinality(ce) = 1 /\ \A i \in ce : resp.headers[i][2] = "gzip"
        /\ LastThree(resp.path) \notin {<<".", "b", "r">>, <<".", "g", "z">>} =>
             ce = {}

C2_Witness ==
    /\ nreq > 0
    /\ resp.path = P_gz
    /\ resp.status = 404
    /\ <<"Content-Encoding", "gzip">> \in Range(resp.headers)

\* C3: a GET of /$env/N with N defined as V in the environment is answered
\* 200 with Content-Type: text/plain and a body that is exactly V.
C3_DefinedNameReturnsValue ==
    [][nreq' # nreq =>
         \A N \in NameOf(resp'.path) :
            N \in DOMAIN environ =>
               /\ resp'.status = 200
               /\ <<"Content-Type", "text/plain">> \in Range(resp'.headers)
               /\ resp'.body = RawBytes(environ[N])]_vars

\* C4: a GET of /$env/N with N not defined in the environment is answered
\* 404 and no body byte follows the headers.
C4_UndefinedNameIs404Empty ==
    [][nreq' # nreq =>
         \A N \in NameOf(resp'.path) :
            N \notin DOMAIN environ =>
               /\ resp'.status = 404
               /\ resp'.flushed
               /\ resp'.body = <<>>]_vars

C4_Witness ==
    /\ nreq > 0
    /\ resp.path = P_envA
    /\ NameA \notin DOMAIN environ
    /\ resp.status = 404
    /\ resp.body = <<>>

\* C5: GET /$env looks up the empty-string name and is answered 404.
C5_BareEnvLooksUpEmptyName ==
    (nreq > 0 /\ resp.path = P_env) =>
        /\ resp.looked = << <<>> >>
        /\ resp.status = 404

\* C6: with browser launch enabled, a failure of the opener (spawning
\* raises, or the opener exits non-zero) does not end the process.
C6_OpenerFailureNonFatal ==
    (args.browser /\ opener \in {"spawn_failed", "exit_nonzero"}) =>
        ~(pc = "crashed" /\ died = "shell_open")

\* C7: once the opener is spawned the listener eventually starts (the port
\* being free), whether or not the opener process ever exits.
C7_ListenerStartsWithoutWaiting ==
    (opener = "running" /\ portFree) ~> (pc = "listening")

\* the directory each root argument names, seen from the script directory
RootValid(root) == root \in {DefaultRoot, RootHome}

ConfiguredRoot(root) ==
    CASE root = DefaultRoot -> <<"repo", "bin">>
      [] root = RootHome    -> <<"home">>
      [] OTHER              -> <<"no such directory">>

\* C8: while the listener runs the working directory is the configured
\* root, resolved from the program's own directory; with an invalid root
\* the process ends at the chdir and the listener is never bound.
C8_ListenerRunsInConfiguredRoot ==
    /\ pc = "listening" =>
          RootValid(args.root) /\ cwd = ConfiguredRoot(args.root)
    /\ ~RootValid(args.root) =>
          /\ pc \in {"main", "serve", "crashed"}
          /\ pc = "crashed" => died = "chdir"

C8_Witness ==
    /\ pc = "listening"
    /\ args.root = DefaultRoot
    /\ cwd = <<"repo", "bin">>

\* C9: each GET of /$env/N is answered from the environment as it is at
\* that request (200 with the current value, or 404) and leaves the
\* environment unchanged.
C9_LookupReflectsCurrentEnvironment ==
    [][nreq' # nreq =>
         /\ environ' = environ
         /\ \A N \in NameOf(resp'.path) :
               IF N \in DOMAIN environ
               THEN resp'.status = 200 /\ resp'.body = RawBytes(environ[N])
               ELSE resp'.status = 404 /\ resp'.body = <<>>]_vars

\* C10: a GET is an environment lookup iff its path starts with /$env;
\* other paths go to static serving without any lookup; a path with the
\* prefix looks up the path with a leading /$env/ removed when present.
C10_DispatchOnLiteralPrefix ==
    nreq > 0 =>
        LET p == resp.path
            hasPrefix ==
                \E k \in 0..Len(p) :
                    p = <<"/", "$", "e", "n", "v">> \o SubSeq(p, k + 1, Len(p))
        IN  /\ (resp.branch = "env") <=> hasPrefix
            /\ ~hasPrefix => resp.branch = "static" /\ resp.looked = <<>>
            /\ hasPrefix =>
                 resp.looked = IF NameOf(p) = {} THEN <<p>>
                               ELSE <<CHOOSE N \in NameOf(p) : TRUE>>

C10_Witness ==
    /\ nreq > 0
    /\ resp.path = P_envX
    /\ resp.branch = "env"
    /\ resp.looked = <<P_envX>>
    /\ resp.status = 404

====
